---- MODULE Spec2Model ----
(***************************************************************************)
(* Model of the MRMS weather radar server (server/index.js, api/index.js)  *)
(* and of its GRIB2 decoder (server/mrmsParser.js).                        *)
(*                                                                         *)
(*   Spec        the product cache and the two request handlers            *)
(*               /api/radar/latest and /api/radar/image, one action per    *)
(*               run-to-completion segment between two awaits.             *)
(*   SpecDecode  decodeData, one action per loop iteration, followed by    *)
(*               generateRadarImage on the decoded values.                 *)
(*   SpecColor   getColorForReflectivity applied to one value.             *)
(*   SpecParse   parseMRMSGrib2 on a byte buffer, one action per section,  *)
(*               then decodeData on what it read.                          *)
(*   SpecBits    readBits applied to one bit range of a buffer.            *)
(*   SpecMap     the RadarMap component: product selection, refresh timer  *)
(*               and the metadata requests it has in flight.               *)
(*   SpecCancel  Spec with clients that close the connection while the     *)
(*               handler awaits fetchRadarData.                            *)
(*                                                                         *)
(* Numbers that are floating point in the program are held exactly, in     *)
(* thousandths, next to a flag for NaN; float32 rounding is not modelled.  *)
(***************************************************************************)
EXTENDS Integers, Sequences, FiniteSets, TLC

VARIABLES
  clock,      \* the value Date.now() returns, in milliseconds
  dataCache,  \* the Map dataCache: key -> [data, time]
  req,        \* the requests: position in the handler and its locals
  dec,        \* decodeData: its arguments, its locals and its position
  img,        \* generateRadarImage: its position and imageData
  px,         \* one call of getColorForReflectivity: argument and result
  prs,        \* parseMRMSGrib2: the buffer, the cursor and the fields read
  rb,         \* one call of readBits: arguments and result
  ui          \* the RadarMap component: its state and its requests in flight

srvVars == <<clock, dataCache, req>>
decVars == <<dec, img>>
vars == <<clock, dataCache, req, dec, img, px, prs, rb, ui>>

(***************************************************************************)
(* Bounds                                                                  *)
(***************************************************************************)
MaxReq == 2        \* number of requests that arrive
MaxWindows == 1    \* the clock runs over this many freshness windows

(***************************************************************************)
(* Program constants                                                       *)
(***************************************************************************)
CACHE_DURATION == 2 * 60 * 1000

MRMS_PRODUCTS == {"rala", "composite", "precip_rate", "echo_tops"}

(***************************************************************************)
(* Inputs                                                                  *)
(***************************************************************************)
\* Instants at which Date.now() is observed: each multiple of the freshness
\* window and one second before it.
Instants ==
  {t \in {w * CACHE_DURATION - d * 1000 : w \in 0..MaxWindows, d \in {0, 1}} :
     t >= 0}

\* Values of req.query.product.  str is the text, arr tells whether the query
\* parser delivered it as a one-element array (?product[]=rala) rather than
\* as a string; str = "" stands for an absent or empty parameter.
QueryValues ==
  {[str |-> s, arr |-> FALSE] : s \in {"", "rala", "composite", "nosuch"}}
    \cup {[str |-> "rala", arr |-> TRUE]}

Requests == 1..MaxReq

\* A JavaScript value used as productId / cacheKey: a primitive string
\* (obj = 0) or an array object created for request obj, whose string
\* conversion is str.
StringValue(s) == [str |-> s, obj |-> 0]

\* req.query.product || 'rala'
ProductIdOf(r, q) ==
  IF q.arr THEN [str |-> q.str, obj |-> r]
  ELSE IF q.str = "" THEN StringValue("rala")
  ELSE StringValue(q.str)

\* MRMS_PRODUCTS[productId]: the property key is the string conversion.
ProductLookup(productId) == productId.str \in MRMS_PRODUCTS

\* dataCache.get(key): Map keys compare by SameValueZero, i.e. strings by
\* value and objects by identity; both are equality of the modelled value.
CacheHas(key) == key \in DOMAIN dataCache
CacheGet(key) == dataCache[key]

\* A store that keeps the entry a key already has.
CacheSetIfAbsent(cache, key, entry) ==
  IF key \in DOMAIN cache THEN cache
  ELSE [k \in DOMAIN cache \cup {key} |->
          IF k = key THEN entry ELSE cache[k]]

\* A store that keeps an entry that has a later time stamp.
CacheSetIfNewer(cache, key, entry) ==
  IF key \in DOMAIN cache /\ cache[key].time > entry.time THEN cache
  ELSE [k \in DOMAIN cache \cup {key} |->
          IF k = key THEN entry ELSE cache[k]]

\* A cache with room for one product only.
CacheSetSingle(cache, key, entry) == [k \in {key} |-> entry]

\* dataCache.set(key, entry)
CacheSet(cache, key, entry) ==
  [k \in DOMAIN cache \cup {key} |-> IF k = key THEN entry ELSE cache[k]]

\* The freshness test with the window written in seconds.
IsFreshSeconds(key, now) ==
  CacheHas(key) /\ now - CacheGet(key).time < 2 * 60

\* cached && (now - cached.time < CACHE_DURATION)
IsFresh(key, now) ==
  CacheHas(key) /\ now - CacheGet(key).time < CACHE_DURATION

\* An entry stamped with the time at which the refresh completed.
NewEntryAtCompletion(r, rec) == [data |-> r, time |-> clock]

\* { data: radarData, time: now }
NewEntry(r, rec) == [data |-> r, time |-> rec.now]

\* A catch block that drops the entry of the product whose refresh failed.
CacheOnFailureEvict(cache, key) ==
  [k \in DOMAIN cache \ {key} |-> cache[k]]

\* The cache after fetchRadarData threw: the catch blocks do not touch it.
CacheOnFailure(cache, key) == cache

\* closed: the client has closed the connection of the request.
NoRequest ==
  [pc |-> "new", route |-> "none", productId |-> StringValue(""), now |-> 0,
   calls |-> 0, fetches |-> 0, decodes |-> 0, status |-> 0, grid |-> 0,
   closed |-> FALSE]

\* Values of the variables a specification does not use.
DecOff == [pc |-> "off"]
ImgOff == [pc |-> "off"]
PxOff == [pc |-> "off"]
PrsOff == [pc |-> "off"]
RbOff == [pc |-> "off"]
UiOff == [pc |-> "off"]

(***************************************************************************)
(* Initial state: empty cache, no request has arrived.                     *)
(***************************************************************************)
InitServer ==
  /\ clock = 0
  /\ dataCache = << >>
  /\ req = [r \in Requests |-> NoRequest]

\* Requests are numbered in order of arrival.
Arrives(r) ==
  /\ req[r].pc = "new"
  /\ IF r = 1 THEN TRUE ELSE req[r - 1].pc # "new"

\* res.json / res.send / res.status(500).json: the handler returns and its
\* locals are dropped; what remains is the response and what the request did.
Respond(rec, status) ==
  [NoRequest EXCEPT !.pc = "done", !.productId = rec.productId,
                    !.status = status, !.calls = rec.calls,
                    !.fetches = rec.fetches, !.decodes = rec.decodes,
                    !.closed = rec.closed]

\* Time passes.
Tick ==
  /\ \E t \in Instants : t > clock /\ clock' = t
  /\ UNCHANGED <<dataCache, req>>

\* The synchronous part of a handler up to its first await.
\* fetchRadarData throws for an unknown product before any network access;
\* the handler's catch answers 500.
HandlerStart(r, route, q) ==
  LET productId == ProductIdOf(r, q)
      now == clock
      rec == [NoRequest EXCEPT !.route = route, !.productId = productId,
                               !.now = now]
  IN
  /\ Arrives(r)
  /\ IF IsFresh(productId, now)
     THEN \* cache hit
          /\ req' = [req EXCEPT ![r] =
               IF route = "latest"
               THEN Respond(rec, 200)
               ELSE [rec EXCEPT !.pc = "sharp",
                                !.grid = CacheGet(productId).data]]
          /\ dataCache' = dataCache
     ELSE \* cache miss: call fetchRadarData(productId)
          /\ req' = [req EXCEPT ![r] =
               IF ProductLookup(productId)
               THEN [rec EXCEPT !.pc = "fetch", !.calls = 1, !.fetches = 1]
               ELSE Respond([rec EXCEPT !.calls = 1], 500)]
          /\ dataCache' =
               IF ProductLookup(productId) THEN dataCache
               ELSE CacheOnFailure(dataCache, productId)
  /\ UNCHANGED clock

\* app.get('/api/radar/latest')
Latest(r, q) == HandlerStart(r, "latest", q)

\* app.get('/api/radar/image')
Image(r, q) == HandlerStart(r, "image", q)

\* The ways fetchRadarData settles once the product is known: the fetch
\* fails or answers non-OK, reading the body fails, gunzipSync throws,
\* parseMRMSGrib2 throws, or the parsed grid is returned.
FetchOutcomes == {"httpError", "bodyError", "gunzipError", "parseError", "ok"}

\* await fetchRadarData(productId) settles.  Between its call and its
\* settling fetchRadarData touches nothing the handlers share, so its two
\* inner awaits are one step here.  On success the handler stores the entry
\* and goes on to answer; on failure its catch block answers 500.  The data
\* of a successful refresh is identified by the request that fetched it.
FetchRadarDataSettles(r, outcome) ==
  LET rec == req[r]
      decoded == [rec EXCEPT !.decodes =
                    IF outcome \in {"parseError", "ok"} THEN 1 ELSE 0]
      cache2 == CacheSet(dataCache, rec.productId, NewEntry(r, rec))
  IN
  /\ rec.pc = "fetch"
  /\ IF outcome = "ok"
     THEN /\ dataCache' = cache2
          /\ req' = [req EXCEPT ![r] =
               IF rec.route = "latest"
               THEN Respond(decoded, 200)
               ELSE [decoded EXCEPT !.pc = "sharp",
                                    !.grid = cache2[rec.productId].data]]
     ELSE /\ dataCache' = CacheOnFailure(dataCache, rec.productId)
          /\ req' = [req EXCEPT ![r] = Respond(decoded, 500)]
  /\ UNCHANGED clock

\* generateRadarImage finishes (or throws): the image handler answers.
ImageSettles(r, ok) ==
  /\ req[r].pc = "sharp"
  /\ req' = [req EXCEPT ![r] =
       IF ok THEN Respond(@, 200) ELSE Respond(@, 500)]
  /\ UNCHANGED <<clock, dataCache>>

Init ==
  /\ InitServer /\ dec = DecOff /\ img = ImgOff /\ px = PxOff
  /\ prs = PrsOff /\ rb = RbOff /\ ui = UiOff

Next ==
  /\ UNCHANGED <<dec, img, px, prs, rb, ui>>
  /\ \/ Tick
     \/ \E r \in Requests, q \in QueryValues : Latest(r, q)
     \/ \E r \in Requests, q \in QueryValues : Image(r, q)
     \/ \E r \in Requests, o \in FetchOutcomes : FetchRadarDataSettles(r, o)
     \/ \E r \in Requests, ok \in BOOLEAN : ImageSettles(r, ok)

Spec == Init /\ [][Next]_vars

\* A handler that ends when its client goes away.
AbandonedEndsRequest(rec) ==
  [NoRequest EXCEPT !.pc = "done", !.productId = rec.productId,
                    !.calls = rec.calls, !.fetches = rec.fetches,
                    !.closed = TRUE]

\* The request after its client has closed the connection: the handlers
\* subscribe to no 'close' or 'aborted' event and pass no signal to fetch,
\* so the handler stays suspended at its await.
Abandoned(rec) == [rec EXCEPT !.closed = TRUE]

\* The client of request r goes away while the handler awaits
\* fetchRadarData.
Abandon(r) ==
  /\ req[r].pc = "fetch"
  /\ ~req[r].closed
  /\ req' = [req EXCEPT ![r] = Abandoned(req[r])]
  /\ UNCHANGED <<clock, dataCache>>

\* The requests of the runs with cancellation name a configured product.
CancelQueries == {q \in QueryValues : ~q.arr /\ q.str \in MRMS_PRODUCTS}

NextCancel ==
  /\ UNCHANGED <<dec, img, px, prs, rb, ui>>
  /\ \/ Tick
     \/ \E r \in Requests, q \in CancelQueries : Latest(r, q)
     \/ \E r \in Requests, q \in CancelQueries : Image(r, q)
     \/ \E r \in Requests, o \in FetchOutcomes : FetchRadarDataSettles(r, o)
     \/ \E r \in Requests, ok \in BOOLEAN : ImageSettles(r, ok)
     \/ \E r \in Requests : Abandon(r)

SpecCancel == Init /\ [][NextCancel]_vars

(***************************************************************************)
(* Numbers                                                                 *)
(***************************************************************************)
\* A JavaScript number: NaN, or an exact value in thousandths.
NaN == [nan |-> TRUE, num |-> 0]
Num(milli) == [nan |-> FALSE, num |-> milli]

\* The comparison a <= b.
LessThanOrEqual(a, b) == ~a.nan /\ ~b.nan /\ a.num <= b.num

\* a < b on JavaScript numbers: false as soon as one side is NaN.
LessThan(a, b) == ~a.nan /\ ~b.nan /\ a.num < b.num

RECURSIVE Pow(_, _)
Pow(b, n) == IF n <= 0 THEN 1 ELSE b * Pow(b, n - 1)

\* floor(x * num / den) without leaving the 32-bit range.
MulDiv(x, num, den) == (x \div den) * num + ((x % den) * num) \div den

\* value << 1 on a 32-bit signed integer: bit 30 becomes the sign, the
\* old sign is lost.  (Written without leaving the 32-bit range.)
ShiftLeft1(value) ==
  LET low31 == IF value >= 0 THEN value ELSE (value + 2147483647) + 1
      low30 == low31 % 1073741824
      bit30 == low31 \div 1073741824
  IN IF bit30 = 1 THEN (low30 * 2 - 2147483647) - 1 ELSE low30 * 2

\* buffer[index] of a Buffer held as a sequence of bytes, index from 0.
\* Outside the buffer the element is undefined, which the shift operator
\* that follows converts to 0.
ByteAt(buffer, index) ==
  IF index >= 0 /\ index < Len(buffer) THEN buffer[index + 1] ELSE 0

\* (buffer[byteIndex] >> bitIndex) & 1 for bit number bitNo of the buffer
BitAt(buffer, bitNo) ==
  LET byteIndex == bitNo \div 8
      bitIndex == 7 - (bitNo % 8)
  IN (ByteAt(buffer, byteIndex) \div Pow(2, bitIndex)) % 2

(***************************************************************************)
(* Reflectivity colour mapper                                              *)
(***************************************************************************)
getColorForReflectivity(dbz) ==
  IF LessThan(dbz, Num(5000)) THEN <<0, 0, 0, 0>>
  ELSE IF LessThan(dbz, Num(10000)) THEN <<4, 233, 231, 180>>
  ELSE IF LessThan(dbz, Num(15000)) THEN <<1, 159, 244, 200>>
  ELSE IF LessThan(dbz, Num(20000)) THEN <<3, 0, 244, 220>>
  ELSE IF LessThan(dbz, Num(25000)) THEN <<2, 253, 2, 230>>
  ELSE IF LessThan(dbz, Num(30000)) THEN <<1, 197, 1, 240>>
  ELSE IF LessThan(dbz, Num(35000)) THEN <<0, 142, 0, 250>>
  ELSE IF LessThan(dbz, Num(40000)) THEN <<253, 248, 2, 255>>
  ELSE IF LessThan(dbz, Num(45000)) THEN <<229, 188, 0, 255>>
  ELSE IF LessThan(dbz, Num(50000)) THEN <<253, 139, 0, 255>>
  ELSE IF LessThan(dbz, Num(55000)) THEN <<212, 0, 0, 255>>
  ELSE IF LessThan(dbz, Num(60000)) THEN <<188, 0, 0, 255>>
  ELSE IF LessThan(dbz, Num(65000)) THEN <<248, 0, 253, 255>>
  ELSE <<153, 85, 201, 255>>

\* Arguments of the colour mapper: NaN, and values at, just beside and
\* between the thresholds, below the first and above the last.
ColorInputs ==
  {NaN} \cup {Num(b * 5000 + d) : b \in -1..14, d \in {-1, 0, 1, 2500}}

InitColor ==
  /\ px \in {[pc |-> "call", dbz |-> v, color |-> <<0, 0, 0, 0>>] :
               v \in ColorInputs}
  /\ InitServer /\ dec = DecOff /\ img = ImgOff
  /\ prs = PrsOff /\ rb = RbOff /\ ui = UiOff

ColorOf ==
  /\ px.pc = "call"
  /\ px' = [px EXCEPT !.pc = "done",
                      !.color = getColorForReflectivity(px.dbz)]
  /\ UNCHANGED <<clock, dataCache, req, dec, img, prs, rb, ui>>

NextColor == ColorOf

SpecColor == InitColor /\ [][NextColor]_vars

(***************************************************************************)
(* Value decoder                                                           *)
(***************************************************************************)
MaxPoints == 3     \* numberOfDataPoints is at most this
MaxDataLen == 2    \* the data payload has at most this many bytes

\* readBits(buffer, bitOffset, numBits): the loop from iteration i on.
RECURSIVE readBitsFrom(_, _, _, _, _)
\* (The test next = next is always true; it makes the checker compute each
\* iteration's value before the next iteration starts.)
readBitsFrom(buffer, bitOffset, numBits, i, value) ==
  IF i >= numBits THEN value
  ELSE LET next == ShiftLeft1(value) + BitAt(buffer, bitOffset + i)
       IN IF next = next
          THEN readBitsFrom(buffer, bitOffset, numBits, i + 1, next)
          ELSE value

readBits(buffer, bitOffset, numBits) ==
  readBitsFrom(buffer, bitOffset, numBits, 0, 0)

\* (referenceValue + packedValue * binaryScale) * decimalScale, in
\* thousandths, computed without leaving the 32-bit range.  The inputs
\* below keep the divisions exact.
Rescale(referenceValue, packedValue, binaryScaleFactor, decimalScaleFactor) ==
  LET scaled == IF binaryScaleFactor >= 0
                THEN packedValue * 1000 * Pow(2, binaryScaleFactor)
                ELSE MulDiv(packedValue, 1000, Pow(2, -binaryScaleFactor))
      sum == referenceValue + scaled
  IN IF decimalScaleFactor >= 0
     THEN sum \div Pow(10, decimalScaleFactor)
     ELSE sum * Pow(10, -decimalScaleFactor)

\* Byte sequences of length 0..n over the bytes of set s.
ByteSeqs(s, n) == UNION {[1..k -> s] : k \in 0..n}

DataBytes == {165, 255}
BitMapBytes == {0, 160, 255}
BitWidths == {0, 1, 3, 8, 12}

\* bitMap is null, or the slice of section 6 after its sixth byte.
BitMaps ==
  {[present |-> FALSE, bytes |-> << >>]}
    \cup {[present |-> TRUE, bytes |-> b] : b \in ByteSeqs(BitMapBytes, 1)}

\* Arguments of decodeData, with the grid dimensions the parser returns
\* next to the values.
NarrowInputs ==
  [dataBuffer : ByteSeqs(DataBytes, MaxDataLen),
   bitMap : BitMaps,
   numberOfDataPoints : 0..MaxPoints,
   numberOfBits : BitWidths,
   referenceValue : {-5000, 7500},
   binaryScaleFactor : {-1, 1},
   decimalScaleFactor : {0, 1},
   nx : 0..2,
   ny : 1..2]

\* One 32-bit cell whose low 24 bits are 0, scaled by 2^-20.
WideInputs ==
  [dataBuffer : {<<b, 0, 0, 0>> : b \in {37, 128, 165}},
   bitMap : {[present |-> FALSE, bytes |-> << >>]},
   numberOfDataPoints : {1},
   numberOfBits : {32},
   referenceValue : {-5000, 7500},
   binaryScaleFactor : {-20},
   decimalScaleFactor : {0, 1},
   nx : {1},
   ny : {1}]

DecodeInputs == NarrowInputs \cup WideInputs

InitDecode ==
  /\ \E a \in DecodeInputs :
       dec = [pc |-> "call", args |-> a, values |-> << >>, i |-> 0,
              bitPos |-> 0]
  /\ img = [pc |-> "wait", imageData |-> << >>]
  /\ InitServer /\ px = PxOff /\ prs = PrsOff /\ rb = RbOff /\ ui = UiOff

\* The degenerate grid filled with the rescaled reference value.
FillValueRescaled(a) ==
  Rescale(a.referenceValue, 0, a.binaryScaleFactor, a.decimalScaleFactor)

\* values.fill(referenceValue)
FillValue(a) == a.referenceValue

\* decodeData up to the loop: allocate the values, and in the degenerate
\* case fill them with the reference value and return.
DecodeEnter ==
  LET a == dec.args IN
  /\ dec.pc = "call"
  /\ dec' =
       IF a.numberOfBits = 0
       THEN [dec EXCEPT !.pc = "done",
               !.values = [j \in 1..a.numberOfDataPoints |->
                             Num(FillValue(a))]]
       ELSE [dec EXCEPT !.pc = "loop",
               !.values = [j \in 1..a.numberOfDataPoints |-> Num(0)],
               !.i = 0, !.bitPos = 0]
  /\ UNCHANGED <<clock, dataCache, req, img, px, prs, rb, ui>>

\* A decoder for which no cell is missing.
IsMissingNever(bitMap, i) == FALSE

\* if (bitMap) { ... isMasked === 0 }
IsMissing(bitMap, i) == bitMap.present /\ BitAt(bitMap.bytes, i) = 0

\* One iteration of the loop over the cells.
DecodeCell ==
  LET a == dec.args
      i == dec.i
      packedValue == readBits(a.dataBuffer, dec.bitPos, a.numberOfBits)
  IN
  /\ dec.pc = "loop"
  /\ i < a.numberOfDataPoints
  /\ dec' =
       IF IsMissing(a.bitMap, i)
       THEN [dec EXCEPT !.values[i + 1] = NaN, !.i = i + 1]
       ELSE [dec EXCEPT
               !.values[i + 1] =
                  Num(Rescale(a.referenceValue, packedValue,
                              a.binaryScaleFactor, a.decimalScaleFactor)),
               !.bitPos = @ + a.numberOfBits,
               !.i = i + 1]
  /\ UNCHANGED <<clock, dataCache, req, img, px, prs, rb, ui>>

\* The loop ends: return values.
DecodeReturn ==
  /\ dec.pc = "loop"
  /\ dec.i >= dec.args.numberOfDataPoints
  /\ dec' = [dec EXCEPT !.pc = "done"]
  /\ UNCHANGED <<clock, dataCache, req, img, px, prs, rb, ui>>

\* The pixel buffer generateRadarImage builds: Buffer.alloc(nx * ny * 4),
\* then four bytes per value; a store beyond the buffer has no effect.
ImageData(nx, ny, values) ==
  [j \in 1..(nx * ny * 4) |->
     LET i == (j - 1) \div 4
         c == (j - 1) % 4
     IN IF i < Len(values)
        THEN getColorForReflectivity(values[i + 1])[c + 1]
        ELSE 0]

\* generateRadarImage on the decoded message, up to the call of sharp.
GenerateRadarImage ==
  LET a == dec.args IN
  /\ dec.pc = "done"
  /\ img.pc = "wait"
  /\ img' =
       IF a.nx = 0 \/ a.ny = 0
       THEN [img EXCEPT !.pc = "error"]
       ELSE [img EXCEPT !.pc = "done",
                        !.imageData = ImageData(a.nx, a.ny, dec.values)]
  /\ UNCHANGED <<clock, dataCache, req, dec, px, prs, rb, ui>>

NextDecode ==
  \/ DecodeEnter
  \/ DecodeCell
  \/ DecodeReturn
  \/ GenerateRadarImage

SpecDecode == InitDecode /\ [][NextDecode]_vars

(***************************************************************************)
(* readBits on its own                                                     *)
(***************************************************************************)
MaxBitOffset == 8   \* bitOffset is at most this
MaxNumBits == 32    \* numBits is at most this

\* The buffers are long enough for every read to lie inside them.
BitsBufferLen == (MaxBitOffset + MaxNumBits + 7) \div 8

\* Bytes 01011010 and 10100101.
BitsBuffers == [1..BitsBufferLen -> {90, 165}]

InitBits ==
  /\ rb \in [pc : {"call"}, buffer : BitsBuffers,
             bitOffset : 0..MaxBitOffset, numBits : 1..MaxNumBits,
             value : {0}]
  /\ InitServer /\ dec = DecOff /\ img = ImgOff /\ px = PxOff
  /\ prs = PrsOff /\ ui = UiOff

ReadBits ==
  /\ rb.pc = "call"
  /\ rb' = [rb EXCEPT !.pc = "done",
                      !.value = readBits(rb.buffer, rb.bitOffset, rb.numBits)]
  /\ UNCHANGED <<clock, dataCache, req, dec, img, px, prs, ui>>

NextBits == ReadBits

SpecBits == InitBits /\ [][NextBits]_vars

(***************************************************************************)
(* GRIB2 parser: Buffer reads                                              *)
(***************************************************************************)
\* A Buffer read of n bytes at offset lies inside the buffer; otherwise the
\* read throws a RangeError.
InRange(buffer, offset, n) == offset >= 0 /\ offset + n <= Len(buffer)

readUInt8(buffer, offset) == buffer[offset + 1]

readUInt16BE(buffer, offset) == buffer[offset + 1] * 256 + buffer[offset + 2]

\* The inputs keep the first byte below 128, so that the value fits the
\* integers of the checker.
readUInt32BE(buffer, offset) ==
  ((buffer[offset + 1] * 256 + buffer[offset + 2]) * 256
     + buffer[offset + 3]) * 256 + buffer[offset + 4]

readInt16BE(buffer, offset) ==
  LET u == readUInt16BE(buffer, offset)
  IN IF u >= 32768 THEN u - 65536 ELSE u

readInt32BE(buffer, offset) ==
  LET b0 == buffer[offset + 1]
      hi == IF b0 >= 128 THEN b0 - 256 ELSE b0
  IN ((hi * 256 + buffer[offset + 2]) * 256 + buffer[offset + 3]) * 256
       + buffer[offset + 4]

\* readFloatBE: the IEEE 754 single at offset, in thousandths, truncated.
\* Magnitudes below 2^-10 (exponent field up to 116, zero and the
\* denormals included) are 0 thousandths; the inputs stay below 2^21
\* (exponent field up to 147).
readFloatBE(buffer, offset) ==
  LET b0 == buffer[offset + 1]
      b1 == buffer[offset + 2]
      sign == IF b0 >= 128 THEN -1 ELSE 1
      e == (b0 % 128) * 2 + (b1 \div 128)
      m == ((b1 % 128) * 256 + buffer[offset + 3]) * 256 + buffer[offset + 4]
  IN IF e <= 116 THEN 0
     ELSE sign * (((8388608 + m) * 125) \div Pow(2, 147 - e))

\* buffer.slice(start, end): both ends are clamped to the buffer.
Slice(buffer, start, end) ==
  LET s0 == IF start > Len(buffer) THEN Len(buffer) ELSE start
      e0 == IF end > Len(buffer) THEN Len(buffer) ELSE end
  IN IF e0 <= s0 THEN << >> ELSE SubSeq(buffer, s0 + 1, e0)

(***************************************************************************)
(* GRIB2 parser: input messages                                            *)
(***************************************************************************)
Zeros(n) == [j \in 1..n |-> 0]

\* The four bytes of an unsigned 32-bit big-endian field.
UInt32Bytes(v) ==
  <<v \div 16777216, (v \div 65536) % 256, (v \div 256) % 256, v % 256>>

\* A section body behind a length field that declares len bytes.
WithLength(len, body) == UInt32Bytes(len) \o body

\* The sections of a message described by m, in file order.
Section0(m) ==
  <<71, 82, 73, IF m.magicOk THEN 66 ELSE 67, 0, 0, m.discipline, m.edition>>
    \o Zeros(8)

\* Reference time 2024-05-17 12:30:00.
Section1Body == <<1>> \o Zeros(7) \o <<7, 232, 5, 17, 12, 30, 0, 0, 1>>

Section2Body == <<2, 0>>

\* Corners 54.995 N 230.005 E to 20.005 N 299.995 E, increments 0.01.
Section3Body(m) ==
  <<3, 0>> \o Zeros(6) \o <<0, m.gridTemplate>> \o Zeros(16)
    \o UInt32Bytes(m.nx) \o UInt32Bytes(m.ny) \o Zeros(8)
    \o UInt32Bytes(54995000) \o UInt32Bytes(230005000) \o <<48>>
    \o UInt32Bytes(20005000) \o UInt32Bytes(299995000)
    \o UInt32Bytes(10000) \o UInt32Bytes(10000) \o <<0>>

Section4Body == <<4>> \o Zeros(4)

\* Reference value 7.5 (40 F0 00 00), binary scale 1, decimal scale 0.
Section5Body(m) ==
  <<5>> \o UInt32Bytes(m.numberOfDataPoints) \o <<0, m.packingTemplate>>
    \o <<64, 240, 0, 0>> \o <<0, 1>> \o <<0, 0>> \o <<m.numberOfBits, 0>>

Section6Body(m) ==
  <<6, m.bitMapIndicator>> \o (IF m.bitMapIndicator = 0 THEN <<160>> ELSE << >>)

Section7Body(m) == <<7>> \o [j \in 1..m.numberOfDataPoints |-> 165]

SectionBodies(m) ==
  <<Section1Body>>
    \o (IF m.localUse THEN <<Section2Body>> ELSE << >>)
    \o <<Section3Body(m), Section4Body, Section5Body(m), Section6Body(m),
         Section7Body(m)>>

\* The number in the section-number byte of the k-th section of the file.
SectionNumberOf(m, k) == SectionBodies(m)[k][1]

\* The length field of the k-th section: its true length, or the declared
\* length of the fault when the fault is on that section.
DeclaredLength(m, k) ==
  IF m.fault.kind = "length" /\ SectionNumberOf(m, k) = m.fault.section
  THEN m.fault.value
  ELSE 4 + Len(SectionBodies(m)[k])

\* The body of the k-th section as the file has it: its section-number
\* byte is the number of the section, or the number of the fault when the
\* fault is on that byte.
BodyInFile(m, k) ==
  IF m.fault.kind = "number" /\ SectionNumberOf(m, k) = m.fault.section
  THEN [SectionBodies(m)[k] EXCEPT ![1] = m.fault.value]
  ELSE SectionBodies(m)[k]

RECURSIVE SectionsFrom(_, _)
SectionsFrom(m, k) ==
  IF k > Len(SectionBodies(m)) THEN <<55, 55, 55, 55>>
  ELSE WithLength(DeclaredLength(m, k), BodyInFile(m, k))
         \o SectionsFrom(m, k + 1)

WholeMessage(m) == Section0(m) \o SectionsFrom(m, 1)

\* Where the k-th section of the file starts.
RECURSIVE SectionStart(_, _)
SectionStart(m, k) ==
  IF k = 1 THEN 16
  ELSE SectionStart(m, k - 1) + 4 + Len(SectionBodies(m)[k - 1])

\* The message as it reaches the parser: whole, or cut after m.fault.value
\* bytes of the section the fault names (section 0: of the indicator).
MessageBytes(m) ==
  IF m.fault.kind = "cut"
  THEN LET k == CHOOSE j \in 0..Len(SectionBodies(m)) :
                  IF j = 0 THEN m.fault.section = 0
                  ELSE SectionNumberOf(m, j) = m.fault.section
           at == IF k = 0 THEN 0 ELSE SectionStart(m, k)
       IN SubSeq(WholeMessage(m), 1, at + m.fault.value)
  ELSE WholeMessage(m)

\* What can be wrong with a message: nothing, a section whose length field
\* declares 0 bytes or more bytes than the file has, a file that ends
\* value bytes into a section, or a section with the number of another
\* section in its section-number byte.
Faults ==
  {[kind |-> "none", section |-> 0, value |-> 0]}
    \cup {[kind |-> "length", section |-> k, value |-> v] :
            k \in {1, 3, 4, 5, 6, 7}, v \in {0, 1000}}
    \cup {[kind |-> "cut", section |-> k, value |-> v] :
            k \in {0, 1, 3, 4, 5, 6, 7}, v \in {0, 4, 5, 7}}
    \cup {[kind |-> "number", section |-> k, value |-> k + 1] :
            k \in {1, 3, 4, 5, 6, 7}}

\* The messages: well-formed ones of every shape, each also with one fault,
\* and messages that differ from a well-formed one in one header field.
SoundMessages ==
  [magicOk : {TRUE}, discipline : {209}, edition : {2},
   localUse : BOOLEAN, gridTemplate : {0}, nx : 1..2, ny : 1..2,
   packingTemplate : {0}, numberOfDataPoints : 1..MaxPoints,
   numberOfBits : {0, 8}, bitMapIndicator : {0, 255}, fault : Faults]

HeaderVariants ==
  [magicOk : BOOLEAN, discipline : {0, 209}, edition : {1, 2},
   localUse : {FALSE}, gridTemplate : {0, 30}, nx : {2}, ny : {1},
   packingTemplate : {0, 40}, numberOfDataPoints : {2},
   numberOfBits : {8}, bitMapIndicator : {255},
   fault : {[kind |-> "none", section |-> 0, value |-> 0]}]

Messages == SoundMessages \cup HeaderVariants

(***************************************************************************)
(* GRIB2 parser: parseMRMSGrib2, one action per section                    *)
(***************************************************************************)
\* prs.offset is the local offset; prs.at[k] is the offset at which section
\* k was read (-1: not read).  Latitudes, longitudes and increments are
\* kept in millionths of a degree, as the bytes hold them.
NoFields ==
  [discipline |-> 0, edition |-> 0,
   timestamp |-> [year |-> 0, month |-> 0, day |-> 0, hour |-> 0,
                  minute |-> 0, second |-> 0],
   nx |-> 0, ny |-> 0, la1 |-> 0, lo1 |-> 0, la2 |-> 0, lo2 |-> 0,
   dx |-> 0, dy |-> 0,
   numberOfDataPoints |-> 0, referenceValue |-> 0, binaryScaleFactor |-> 0,
   decimalScaleFactor |-> 0, numberOfBits |-> 0,
   bitMap |-> [present |-> FALSE, bytes |-> << >>], dataBuffer |-> << >>]

InitParse ==
  /\ \E m \in Messages :
       prs = [pc |-> "sec0", buffer |-> MessageBytes(m), offset |-> 0,
              at |-> [k \in 1..7 |-> -1], error |-> "none",
              fields |-> NoFields, values |-> << >>]
  /\ clock = 0
  /\ dataCache = << >>
  /\ req = [r \in 1..MaxReq |-> NoRequest]
  /\ dec = DecOff
  /\ img = ImgOff
  /\ px = PxOff
  /\ rb = RbOff
  /\ ui = UiOff

\* The exception leaves parseMRMSGrib2.
Throws(error) ==
  /\ prs' = [prs EXCEPT !.pc = "error", !.error = error]
  /\ UNCHANGED <<clock, dataCache, req, dec, img, px, rb, ui>>

\* The section is read and the parser goes on at offset with fields.
Continues(pc, k, offset, fields) ==
  /\ prs' = [prs EXCEPT !.pc = pc, !.offset = offset, !.at[k] = prs.offset,
                        !.fields = fields]
  /\ UNCHANGED <<clock, dataCache, req, dec, img, px, rb, ui>>

\* buffer.toString('utf8', 0, 4) === 'GRIB'; a shorter buffer gives a
\* shorter string.
gribMagic(buffer) ==
  Len(buffer) >= 4 /\ SubSeq(buffer, 1, 4) = <<71, 82, 73, 66>>

editionOfByte6(buffer) == readUInt8(buffer, 6)

editionOf(buffer) == readUInt8(buffer, 7)

ParseIndicator ==
  /\ prs.pc = "sec0"
  /\ IF ~gribMagic(prs.buffer) THEN Throws("Not a valid GRIB2 file")
     ELSE IF ~InRange(prs.buffer, 6, 2) THEN Throws("RangeError")
     ELSE IF editionOf(prs.buffer) # 2
          THEN Throws("GRIB edition not supported")
     ELSE /\ prs' = [prs EXCEPT
                       !.pc = "sec1", !.offset = 16,
                       !.fields.discipline = readUInt8(prs.buffer, 6),
                       !.fields.edition = editionOf(prs.buffer)]
          /\ UNCHANGED <<clock, dataCache, req, dec, img, px, rb, ui>>

ParseIdentification ==
  /\ prs.pc = "sec1"
  /\ LET b == prs.buffer
         o == prs.offset
     IN IF ~InRange(b, o, 19) THEN Throws("RangeError")
        ELSE Continues("sec2", 1, o + readUInt32BE(b, o),
               [prs.fields EXCEPT
                  !.timestamp = [year |-> readUInt16BE(b, o + 12),
                                 month |-> readUInt8(b, o + 14),
                                 day |-> readUInt8(b, o + 15),
                                 hour |-> readUInt8(b, o + 16),
                                 minute |-> readUInt8(b, o + 17),
                                 second |-> readUInt8(b, o + 18)]])

ParseLocalUse ==
  /\ prs.pc = "sec2"
  /\ LET b == prs.buffer
         o == prs.offset
     IN IF ~InRange(b, o, 5) THEN Throws("RangeError")
        ELSE IF readUInt8(b, o + 4) = 2
             THEN Continues("sec3", 2, o + readUInt32BE(b, o), prs.fields)
             ELSE /\ prs' = [prs EXCEPT !.pc = "sec3"]
                  /\ UNCHANGED <<clock, dataCache, req, dec, img, px, rb, ui>>

ParseGridDefinition ==
  /\ prs.pc = "sec3"
  /\ LET b == prs.buffer
         o == prs.offset
     IN IF ~InRange(b, o, 71) THEN Throws("RangeError")
        ELSE Continues("sec4", 3, o + readUInt32BE(b, o),
               [prs.fields EXCEPT
                  !.nx = readUInt32BE(b, o + 30),
                  !.ny = readUInt32BE(b, o + 34),
                  !.la1 = readInt32BE(b, o + 46),
                  !.lo1 = readInt32BE(b, o + 50),
                  !.la2 = readInt32BE(b, o + 55),
                  !.lo2 = readInt32BE(b, o + 59),
                  !.dx = readUInt32BE(b, o + 63),
                  !.dy = readUInt32BE(b, o + 67)])

ParseProductDefinition ==
  /\ prs.pc = "sec4"
  /\ LET b == prs.buffer
         o == prs.offset
     IN IF ~InRange(b, o, 4) THEN Throws("RangeError")
        ELSE Continues("sec5", 4, o + readUInt32BE(b, o), prs.fields)

ParseDataRepresentation ==
  /\ prs.pc = "sec5"
  /\ LET b == prs.buffer
         o == prs.offset
     IN IF ~InRange(b, o, 20) THEN Throws("RangeError")
        ELSE Continues("sec6", 5, o + readUInt32BE(b, o),
               [prs.fields EXCEPT
                  !.numberOfDataPoints = readUInt32BE(b, o + 5),
                  !.referenceValue = readFloatBE(b, o + 11),
                  !.binaryScaleFactor = readInt16BE(b, o + 15),
                  !.decimalScaleFactor = readInt16BE(b, o + 17),
                  !.numberOfBits = readUInt8(b, o + 19)])

ParseBitMap ==
  /\ prs.pc = "sec6"
  /\ LET b == prs.buffer
         o == prs.offset
     IN IF ~InRange(b, o, 6) THEN Throws("RangeError")
        ELSE Continues("sec7", 6, o + readUInt32BE(b, o),
               [prs.fields EXCEPT
                  !.bitMap =
                     IF readUInt8(b, o + 5) = 0
                     THEN [present |-> TRUE,
                           bytes |-> Slice(b, o + 6, o + readUInt32BE(b, o))]
                     ELSE [present |-> FALSE, bytes |-> << >>]])

\* Section 7 is sliced and decodeData is called with what was read.
ParseData ==
  /\ prs.pc = "sec7"
  /\ LET b == prs.buffer
         o == prs.offset
     IN IF ~InRange(b, o, 4)
        THEN /\ Throws("RangeError")
        ELSE LET dataBuffer == Slice(b, o + 5, o + readUInt32BE(b, o))
                 f == prs.fields
             IN /\ prs' = [prs EXCEPT !.pc = "decode", !.at[7] = o,
                                      !.fields.dataBuffer = dataBuffer]
                /\ dec' = [pc |-> "call",
                           args |-> [dataBuffer |-> dataBuffer,
                                     bitMap |-> f.bitMap,
                                     numberOfDataPoints |->
                                       f.numberOfDataPoints,
                                     numberOfBits |-> f.numberOfBits,
                                     referenceValue |-> f.referenceValue,
                                     binaryScaleFactor |->
                                       f.binaryScaleFactor,
                                     decimalScaleFactor |->
                                       f.decimalScaleFactor,
                                     nx |-> f.nx, ny |-> f.ny],
                           values |-> << >>, i |-> 0, bitPos |-> 0]
                /\ UNCHANGED <<clock, dataCache, req, img, px, rb, ui>>

\* decodeData has returned: the grid object is built and returned.
ParseReturn ==
  /\ prs.pc = "decode"
  /\ dec.pc = "done"
  /\ prs' = [prs EXCEPT !.pc = "done", !.values = dec.values]
  /\ UNCHANGED <<clock, dataCache, req, dec, img, px, rb, ui>>

NextParse ==
  \/ ParseIndicator
  \/ ParseIdentification
  \/ ParseLocalUse
  \/ ParseGridDefinition
  \/ ParseProductDefinition
  \/ ParseDataRepresentation
  \/ ParseBitMap
  \/ ParseData
  \/ DecodeEnter
  \/ DecodeCell
  \/ DecodeReturn
  \/ ParseReturn

SpecParse == InitParse /\ [][NextParse]_vars

(***************************************************************************)
(* The RadarMap component                                                  *)
(***************************************************************************)
MaxMapRequests == 3   \* calls of fetchRadarData after the one at mount

\* The products the select element offers.
MapProducts == {"rala", "composite"}

\* radarData of the component before the first response.
NoData == [product |-> "", request |-> 0]

\* The component after the synchronous part of fetchRadarData(product):
\* setLoading(true), setError(null), and the request is on its way.
\* Requests are numbered in the order of the calls.
FetchStarted(u, product) ==
  [u EXCEPT !.loading = TRUE, !.error = FALSE, !.calls = @ + 1,
            !.inFlight = @ \cup {[id |-> u.calls + 1, product |-> product]}]

\* The component after mount: the state of useState, then the effect has
\* called fetchRadarData(selectedProduct) and set the refresh interval.
InitMap ==
  /\ ui = FetchStarted([pc |-> "mounted", selectedProduct |-> "rala",
                        radarData |-> NoData, loading |-> TRUE,
                        error |-> FALSE, calls |-> 0, inFlight |-> {}],
                       "rala")
  /\ InitServer /\ dec = DecOff /\ img = ImgOff /\ px = PxOff
  /\ prs = PrsOff /\ rb = RbOff

\* onChange of the select element: setSelectedProduct, and after the render
\* the effect clears the interval, calls fetchRadarData(selectedProduct)
\* and sets a new interval.
SelectProduct(product) ==
  /\ ui.calls <= MaxMapRequests
  /\ product # ui.selectedProduct
  /\ ui' = FetchStarted([ui EXCEPT !.selectedProduct = product], product)
  /\ UNCHANGED <<clock, dataCache, req, dec, img, px, prs, rb>>

\* The refresh interval fires: fetchRadarData(selectedProduct).
RefreshTimer ==
  /\ ui.calls <= MaxMapRequests
  /\ ui' = FetchStarted(ui, ui.selectedProduct)
  /\ UNCHANGED <<clock, dataCache, req, dec, img, px, prs, rb>>

\* The button "Refresh Now", disabled while loading: fetchRadarData().
handleRefresh ==
  /\ ui.calls <= MaxMapRequests
  /\ ~ui.loading
  /\ ui' = FetchStarted(ui, ui.selectedProduct)
  /\ UNCHANGED <<clock, dataCache, req, dec, img, px, prs, rb>>

\* setRadarData(data) with the response of request q.
ResponseStored(u, q) ==
  [u EXCEPT !.radarData = [product |-> q.product, request |-> q.id]]

\* Request q settles: with the response, which is stored, or with an error,
\* which is shown; either way setLoading(false).
ResponseArrives(q, ok) ==
  /\ q \in ui.inFlight
  /\ ui' = [(IF ok THEN ResponseStored(ui, q)
                   ELSE [ui EXCEPT !.error = TRUE])
              EXCEPT !.loading = FALSE, !.inFlight = @ \ {q}]
  /\ UNCHANGED <<clock, dataCache, req, dec, img, px, prs, rb>>

NextMap ==
  \/ \E product \in MapProducts : SelectProduct(product)
  \/ RefreshTimer
  \/ handleRefresh
  \/ \E q \in ui.inFlight, ok \in BOOLEAN : ResponseArrives(q, ok)

SpecMap == InitMap /\ [][NextMap]_vars

(***************************************************************************)
(* Properties of the product cache (Spec)                                  *)
(***************************************************************************)
TotalFetches == Cardinality({r \in Requests : req[r].fetches = 1})
TotalDecodes == Cardinality({r \in Requests : req[r].decodes = 1})

\* Request r is received in this step.
Starts(r) == req[r].pc = "new" /\ req'[r].pc # "new"

\* The refresh of request r succeeds in this step.
Succeeds(r) ==
  /\ req[r].pc = "fetch"
  /\ req'[r].pc = "sharp" \/ (req'[r].pc = "done" /\ req'[r].status = 200)

\* The cache holds an entry for key k that is younger than 120 s at time t.
WithinWindow(k, t) ==
  k \in DOMAIN dataCache /\ t - dataCache[k].time < 120000

\* C1: a request that finds an entry for its key younger than 120 s performs
\* no fetch and no decode and leaves the cache as it is.
C1_FreshHitNoFetch ==
  [][\A r \in Requests :
       (Starts(r) /\ WithinWindow(req'[r].productId, clock)) =>
         /\ dataCache' = dataCache
         /\ req'[r].calls = 0
         /\ TotalFetches' = TotalFetches
         /\ TotalDecodes' = TotalDecodes]_vars

\* A second request, 119 s after the first one filled the cache, was answered
\* from the cache: one fetch in total.
C1_Witness ==
  /\ clock = 119000
  /\ req[1].pc = "done" /\ req[1].fetches = 1
  /\ req[2].pc = "done" /\ req[2].status = 200 /\ req[2].calls = 0
  /\ req[2].productId = StringValue("rala")
  /\ StringValue("rala") \in DOMAIN dataCache
  /\ dataCache[StringValue("rala")].time = 0
  /\ TotalFetches = 1

\* C2: a request that finds no entry for its key, or one of age 120 s or
\* more, starts exactly one refresh (one call of fetchRadarData, hence at
\* most one fetch and one decode), and when the refresh succeeds the entry of
\* its key becomes the fetched data stamped with the time read when the
\* request was received.
C2_MissRefreshesOnce ==
  [][\A r \in Requests :
       /\ (Starts(r) /\ ~WithinWindow(req'[r].productId, clock)) =>
            /\ req'[r].calls = 1
            /\ req'[r].pc = "fetch" =>
                 (req'[r].now = clock /\ req'[r].fetches = 1)
       /\ (req[r].pc = "fetch" /\ req'[r] # req[r]) =>
            /\ req'[r].calls = 1
            /\ req'[r].fetches = 1
       /\ Succeeds(r) =>
            /\ req'[r].decodes = 1
            /\ req[r].productId \in DOMAIN dataCache'
            /\ dataCache'[req[r].productId] =
                 [data |-> r, time |-> req[r].now]]_vars

\* The second request found the entry of the first one expired, exactly
\* 120 s old, and replaced it.
C2_Witness ==
  /\ clock = 120000
  /\ req[2].pc = "done" /\ req[2].status = 200 /\ req[2].fetches = 1
  /\ StringValue("rala") \in DOMAIN dataCache
  /\ dataCache[StringValue("rala")] = [data |-> 2, time |-> 120000]
  /\ req[1].pc = "done" /\ req[1].fetches = 1

\* C3: only the step in which a refresh succeeds changes the cache; every
\* other step of a request, in particular one that ends a refresh with an
\* error, leaves every entry as it was.
C3_FailureKeepsEntry ==
  [][\A r \in Requests :
       (req'[r] # req[r] /\ ~Succeeds(r)) => dataCache' = dataCache]_vars

\* A refresh of an expired entry failed and the entry is still there.
C3_Witness ==
  /\ req[2].pc = "done" /\ req[2].status = 500 /\ req[2].calls = 1
  /\ req[2].productId \in DOMAIN dataCache
  /\ dataCache[req[2].productId] = [data |-> 1, time |-> 0]

\* C4: a step of a request for key a leaves the entry of every other key b
\* unchanged (present with the same data and time, or absent).
C4_KeysIndependent ==
  [][\A r \in Requests :
       req'[r] # req[r] =>
         \A b \in DOMAIN dataCache \cup DOMAIN dataCache' :
           b # req'[r].productId =>
             /\ b \in DOMAIN dataCache
             /\ b \in DOMAIN dataCache'
             /\ dataCache'[b] = dataCache[b]]_vars

\* Two products are cached side by side.
C4_Witness ==
  /\ StringValue("rala") \in DOMAIN dataCache
  /\ StringValue("composite") \in DOMAIN dataCache
  /\ dataCache[StringValue("rala")].data = 1
  /\ dataCache[StringValue("composite")].data = 2

\* C5: the keys of dataCache are configured product identifiers.
C5_KeysAreProducts ==
  \A k \in DOMAIN dataCache :
    k \in {StringValue(p) :
             p \in {"rala", "composite", "precip_rate", "echo_tops"}}

(***************************************************************************)
(* Properties of the colour mapper (SpecColor)                             *)
(***************************************************************************)
\* C6: the colour mapper maps NaN to transparent black.
C6_NaNTransparent ==
  (px.pc = "done" /\ px.dbz.nan) => px.color = <<0, 0, 0, 0>>

\* The colour table: upper bounds in thousandths of a dBZ, ascending.
ColorTable ==
  << <<5000, <<0, 0, 0, 0>> >>,
     <<10000, <<4, 233, 231, 180>> >>,
     <<15000, <<1, 159, 244, 200>> >>,
     <<20000, <<3, 0, 244, 220>> >>,
     <<25000, <<2, 253, 2, 230>> >>,
     <<30000, <<1, 197, 1, 240>> >>,
     <<35000, <<0, 142, 0, 250>> >>,
     <<40000, <<253, 248, 2, 255>> >>,
     <<45000, <<229, 188, 0, 255>> >>,
     <<50000, <<253, 139, 0, 255>> >>,
     <<55000, <<212, 0, 0, 255>> >>,
     <<60000, <<188, 0, 0, 255>> >>,
     <<65000, <<248, 0, 253, 255>> >> >>

\* The colour of the first table entry whose bound exceeds v, else the
\* overflow colour.
TableColor(v) ==
  LET above == {n \in 1..Len(ColorTable) : ColorTable[n][1] > v}
  IN IF above = {} THEN <<153, 85, 201, 255>>
     ELSE ColorTable[CHOOSE n \in above : \A m \in above : n <= m][2]

\* C7: for a value that is not NaN the colour mapper returns the colour of
\* the first table entry whose bound exceeds the value, and the overflow
\* colour from 65 on; values below 5 are transparent.
C7_TableLookup ==
  (px.pc = "done" /\ ~px.dbz.nan) =>
    /\ px.color = TableColor(px.dbz.num)
    /\ px.dbz.num < 5000 => px.color = <<0, 0, 0, 0>>
    /\ px.dbz.num = 4999 => px.color = <<0, 0, 0, 0>>
    /\ px.dbz.num = 5000 => px.color = <<4, 233, 231, 180>>
    /\ px.dbz.num = 19999 => px.color = <<3, 0, 244, 220>>
    /\ px.dbz.num \in {65000, 65001} => px.color = <<153, 85, 201, 255>>

C7_Witness ==
  px.pc = "done" /\ px.dbz = Num(5000) /\ px.color = <<4, 233, 231, 180>>

(***************************************************************************)
(* Properties of the value decoder (SpecDecode)                            *)
(***************************************************************************)
\* Bit i of the bitmap, for a cell the bitmap has a bit for.
BitmapBit(i) ==
  (dec.args.bitMap.bytes[(i \div 8) + 1] \div Pow(2, 7 - (i % 8))) % 2

\* C8: whenever a bitmap is present and its bit i is 0, the decoded value of
\* cell i is NaN, for every bit width, 0 included.
C8_BitmapFidelity ==
  dec.pc = "done" =>
    \A i \in 0..(dec.args.numberOfDataPoints - 1) :
      (/\ dec.args.bitMap.present
       /\ i < 8 * Len(dec.args.bitMap.bytes)
       /\ BitmapBit(i) = 0) => dec.values[i + 1] = NaN

\* C9: with bit width 0 and no bitmap the decoder returns numberOfDataPoints
\* values, all equal to the reference value as read, and the bit cursor has
\* not moved.
C9_DegenerateGrid ==
  (/\ dec.pc = "done"
   /\ dec.args.numberOfBits = 0
   /\ ~dec.args.bitMap.present) =>
     /\ Len(dec.values) = dec.args.numberOfDataPoints
     /\ \A j \in 1..Len(dec.values) :
          dec.values[j] = Num(dec.args.referenceValue)
     /\ dec.bitPos = 0
     /\ dec.i = 0

C9_Witness ==
  /\ dec.pc = "done"
  /\ dec.args.numberOfBits = 0
  /\ ~dec.args.bitMap.present
  /\ dec.args.numberOfDataPoints = 3
  /\ dec.args.decimalScaleFactor = 1
  /\ dec.values = <<Num(7500), Num(7500), Num(7500)>>

\* C10: the decoder never returns values after its bit cursor has gone
\* beyond the last bit of the data payload.
C10_TruncationDetected ==
  dec.pc = "done" => dec.bitPos <= 8 * Len(dec.args.dataBuffer)

(***************************************************************************)
(* Properties of the parser (SpecParse)                                    *)
(***************************************************************************)
SectionPcs == {"sec1", "sec2", "sec3", "sec4", "sec5", "sec6", "sec7"}

\* The bytes between the cursor and the end of the buffer.
Remaining == Len(prs.buffer) - prs.offset

\* The parser takes the bytes at the cursor for a section (at section 2:
\* only if their section-number byte is 2).
TakesSection ==
  /\ prs.pc \in SectionPcs
  /\ prs'.pc \notin {prs.pc, "error"}
  /\ prs.pc = "sec2" => prs'.at[2] = prs.offset

\* C11: a section is taken only when at least 5 bytes remain at the cursor
\* and its declared length is at least 1 and at most the remaining length.
C11_SectionLengthsChecked ==
  [][TakesSection =>
       IF Remaining < 5 THEN FALSE
       ELSE /\ readUInt32BE(prs.buffer, prs.offset) >= 1
            /\ readUInt32BE(prs.buffer, prs.offset) <= Remaining]_vars

\* The parser has got past the indicator section.
PastIndicator == prs.pc # "sec0" /\ prs.offset >= 16

\* The parser has rejected the buffer before reading any section.
RejectedAtEntry ==
  /\ prs.pc = "error"
  /\ prs.offset = 0
  /\ prs.fields = NoFields
  /\ \A k \in 1..7 : prs.at[k] = -1

\* C12: a buffer whose bytes 0-3 are not "GRIB" or whose byte 7 is not 2 is
\* rejected before any section is read, and a buffer with the magic and
\* edition 2 gets past the indicator section whatever its byte 6 is.
C12_IndicatorChecked ==
  prs.pc \notin {"off", "sec0"} =>
    LET magicOk == /\ Len(prs.buffer) >= 4
                   /\ prs.buffer[1] = 71 /\ prs.buffer[2] = 82
                   /\ prs.buffer[3] = 73 /\ prs.buffer[4] = 66
        editionOk == Len(prs.buffer) >= 8 /\ prs.buffer[8] = 2
    IN IF magicOk /\ editionOk
       THEN PastIndicator /\ prs.fields.discipline = prs.buffer[7]
       ELSE RejectedAtEntry

C12_Witness ==
  /\ RejectedAtEntry
  /\ prs.error = "GRIB edition not supported"
  /\ SubSeq(prs.buffer, 1, 4) = <<71, 82, 73, 66>>
  /\ prs.buffer[7] = 209
  /\ prs.buffer[8] = 1

\* C13: grid geometry is read from a section 3 only if its grid-definition
\* template number is 0.
C13_GridTemplateChecked ==
  (prs.at[3] # -1 /\ readUInt8(prs.buffer, prs.at[3] + 4) = 3) =>
    readUInt16BE(prs.buffer, prs.at[3] + 12) = 0

\* C14: packing parameters are read from a section 5 only if its
\* data-representation template number is 0.
C14_PackingTemplateChecked ==
  (prs.at[5] # -1 /\ readUInt8(prs.buffer, prs.at[5] + 4) = 5) =>
    readUInt16BE(prs.buffer, prs.at[5] + 9) = 0

\* C15: a returned grid has nx * ny = numberOfDataPoints = number of values.
C15_GridSizeConsistent ==
  prs.pc = "done" =>
    /\ prs.fields.nx * prs.fields.ny = prs.fields.numberOfDataPoints
    /\ prs.fields.numberOfDataPoints = Len(prs.values)

(***************************************************************************)
(* Properties of the pixel buffer (SpecDecode)                             *)
(***************************************************************************)
\* C16: the pixel buffer has nx * ny * 4 bytes, and the four bytes of every
\* cell i below nx * ny are the colour of decoded value i.
C16_EveryPixelWritten ==
  img.pc = "done" =>
    /\ Len(img.imageData) = dec.args.nx * dec.args.ny * 4
    /\ \A i \in 0..(dec.args.nx * dec.args.ny - 1) :
         /\ i < Len(dec.values)
         /\ SubSeq(img.imageData, 4 * i + 1, 4 * i + 4)
              = getColorForReflectivity(dec.values[i + 1])

(***************************************************************************)
(* Properties of the value decoder, continued (SpecDecode)                 *)
(***************************************************************************)
\* Cell i is valid: there is no bitmap, or the bitmap has bit i set.
CellValid(i) ==
  \/ ~dec.args.bitMap.present
  \/ /\ i < 8 * Len(dec.args.bitMap.bytes)
     /\ BitmapBit(i) = 1

\* The bit offset of the packed integer of valid cell i.
CellOffset(i) ==
  dec.args.numberOfBits * Cardinality({j \in 0..(i - 1) : CellValid(j)})

\* Bit k (0 is the first) of the payload, for a bit the payload has.
PayloadBit(k) ==
  (dec.args.dataBuffer[(k \div 8) + 1] \div Pow(2, 7 - (k % 8))) % 2

\* 2^e in thousandths, for e >= -3.
Weight(e) == IF e >= 0 THEN 1000 * Pow(2, e) ELSE 1000 \div Pow(2, -e)

RECURSIVE SumOfBits(_, _, _)
\* X * 2^E in thousandths, where X is the unsigned big-endian integer of
\* the n bits at bit offset pos: the sum of the weights of the bits set,
\* from bit k of the integer on.
SumOfBits(pos, n, k) ==
  IF k >= n THEN 0
  ELSE (IF PayloadBit(pos + k) = 1
        THEN Weight(n - 1 - k + dec.args.binaryScaleFactor) ELSE 0)
       + SumOfBits(pos, n, k + 1)

\* The payload has the n bits at pos, and every bit set among them has a
\* weight that is a whole number of thousandths.
ExactlyPacked(pos, n) ==
  /\ pos + n <= 8 * Len(dec.args.dataBuffer)
  /\ \A k \in 0..(n - 1) :
       PayloadBit(pos + k) = 1 =>
         n - 1 - k + dec.args.binaryScaleFactor >= -3

\* C17: with bit width above 0, the value of a valid cell whose packed
\* unsigned integer is X is (R + X * 2^E) * 10^(-D).
C17_RescaleFormula ==
  (dec.pc = "done" /\ dec.args.numberOfBits > 0) =>
    \A i \in 0..(dec.args.numberOfDataPoints - 1) :
      (/\ CellValid(i)
       /\ ExactlyPacked(CellOffset(i), dec.args.numberOfBits)) =>
        dec.values[i + 1] =
          Num((dec.args.referenceValue
                 + SumOfBits(CellOffset(i), dec.args.numberOfBits, 0))
              \div Pow(10, dec.args.decimalScaleFactor))

(***************************************************************************)
(* Properties of the product cache under concurrency (Spec)                *)
(***************************************************************************)
\* Another request than r has a refresh in flight for key k.
RefreshInFlight(r, k) ==
  \E r2 \in Requests \ {r} : req[r2].pc = "fetch" /\ req[r2].productId = k

\* C18: a request that finds no fresh entry for its key starts its own
\* refresh although another request has one in flight for the same key and
\* leaves that one running; a refresh that succeeds stores its own entry
\* whatever entry is there, so the last one to finish determines the entry.
C18_Stampede ==
  [][\A r \in Requests :
       /\ (/\ Starts(r)
           /\ RefreshInFlight(r, req'[r].productId)
           /\ ~WithinWindow(req'[r].productId, clock)) =>
             /\ req'[r].pc = "fetch"
             /\ req'[r].fetches = 1
             /\ \A r2 \in Requests \ {r} : req'[r2] = req[r2]
       /\ Succeeds(r) =>
             /\ req[r].productId \in DOMAIN dataCache'
             /\ dataCache'[req[r].productId].data = r
             /\ dataCache'[req[r].productId].time = req[r].now
             /\ \A r2 \in Requests \ {r} : req'[r2] = req[r2]]_vars

\* Both requests fetched for the same key and were answered 200; request 1,
\* received first, finished last, after the time stamp of request 2: the
\* entry is the one of request 1.
C18_Witness ==
  /\ req[1].pc = "done" /\ req[1].status = 200 /\ req[1].fetches = 1
  /\ req[2].pc = "done" /\ req[2].status = 200 /\ req[2].fetches = 1
  /\ req[1].productId = StringValue("rala")
  /\ req[2].productId = StringValue("rala")
  /\ clock = 119000
  /\ StringValue("rala") \in DOMAIN dataCache
  /\ dataCache[StringValue("rala")] = [data |-> 1, time |-> 0]

\* C19: a step never replaces the entry of a key by one with a smaller time
\* stamp.
C19_TimestampMonotonic ==
  [][\A k \in DOMAIN dataCache :
       k \in DOMAIN dataCache' /\ dataCache'[k].time >= dataCache[k].time]_vars

(***************************************************************************)
(* Properties of the product cache under cancellation (SpecCancel)         *)
(***************************************************************************)
\* The entry of key k was stored by a request whose client had gone away.
StoredByAbandoned(k) ==
  /\ k \in DOMAIN dataCache
  /\ dataCache[k].data \in Requests
  /\ req[dataCache[k].data].closed

\* C20: when the client of a request goes away during its refresh, the
\* refresh stays in flight and nothing else changes; when the refresh then
\* succeeds it stores its entry as any other; and a request that finds that
\* entry inside the freshness window is served from it without a fetch.
C20_AbandonedRefreshCompletes ==
  [][\A r \in Requests :
       /\ (~req[r].closed /\ req'[r].closed) =>
             /\ req[r].pc = "fetch"
             /\ req'[r] = [req[r] EXCEPT !.closed = TRUE]
             /\ dataCache' = dataCache
       /\ (req[r].closed /\ Succeeds(r)) =>
             /\ req[r].productId \in DOMAIN dataCache'
             /\ dataCache'[req[r].productId] =
                  [data |-> r, time |-> req[r].now]
       /\ (/\ Starts(r)
           /\ WithinWindow(req'[r].productId, clock)
           /\ StoredByAbandoned(req'[r].productId)) =>
             /\ req'[r].fetches = 0
             /\ req'[r].calls = 0
             /\ dataCache' = dataCache
             /\ \/ req'[r].pc = "done" /\ req'[r].status = 200
                \/ /\ req'[r].pc = "sharp"
                   /\ req'[r].grid = dataCache[req'[r].productId].data]_vars

\* The client of request 1 went away, its refresh stored the entry, and
\* request 2, 119 s later, was answered from that entry without a fetch.
C20_Witness ==
  /\ req[1].pc = "done" /\ req[1].closed /\ req[1].fetches = 1
  /\ req[1].productId = StringValue("composite")
  /\ req[2].pc = "done" /\ req[2].status = 200 /\ req[2].fetches = 0
  /\ req[2].productId = StringValue("composite")
  /\ ~req[2].closed
  /\ clock = 119000
  /\ StringValue("composite") \in DOMAIN dataCache
  /\ dataCache[StringValue("composite")] = [data |-> 1, time |-> 0]

(***************************************************************************)
(* Properties of the bit cursor (SpecDecode)                               *)
(***************************************************************************)
\* The number of valid cells with index below i.
ValidBelow(i) == Cardinality({j \in 0..(i - 1) : CellValid(j)})

\* C21: with bit width above 0 the bit cursor is, before cell i is handled
\* and after the last cell, the bit width times the number of valid cells
\* handled so far: it starts at 0, advances by the bit width for a valid
\* cell and stays for a missing one.
C21_CursorCountsValidCells ==
  (dec.pc \in {"loop", "done"} /\ dec.args.numberOfBits > 0) =>
    /\ dec.bitPos = dec.args.numberOfBits * ValidBelow(dec.i)
    /\ dec.pc = "done" => dec.i = dec.args.numberOfDataPoints
    /\ ~dec.args.bitMap.present =>
         dec.bitPos = dec.args.numberOfBits * dec.i

\* Three cells under the bitmap 101: the middle one is missing and the
\* cursor ends at two cells' worth of bits.
C21_Witness ==
  /\ dec.pc = "done"
  /\ dec.args.bitMap = [present |-> TRUE, bytes |-> <<160>>]
  /\ dec.args.numberOfDataPoints = 3
  /\ dec.args.numberOfBits = 8
  /\ dec.args.dataBuffer = <<165, 255>>
  /\ dec.values[2] = NaN
  /\ dec.bitPos = 16

(***************************************************************************)
(* Properties of readBits (SpecBits)                                       *)
(***************************************************************************)
\* Bit e (0 is the least significant) of a value in 0 .. 2^31 - 1, the
\* numbers that are not negative among those << and | return; their bits
\* 31 and up are 0.
BitOfValue(value, e) == IF e >= 31 THEN 0 ELSE (value \div Pow(2, e)) % 2

\* Bit k (0 is the first) of the buffer of the call, for a bit it has.
BufferBit(k) == (rb.buffer[(k \div 8) + 1] \div Pow(2, 7 - (k % 8))) % 2

\* C22: reading n bits returns a number that is not negative and whose
\* binary digits, most significant first, are the n bits read.
C22_UnsignedBits ==
  rb.pc = "done" =>
    /\ rb.value >= 0
    /\ rb.numBits <= 30 => rb.value < Pow(2, rb.numBits)
    /\ \A k \in 0..(rb.numBits - 1) :
         BitOfValue(rb.value, rb.numBits - 1 - k)
           = BufferBit(rb.bitOffset + k)

(***************************************************************************)
(* Properties of the section order (SpecParse)                             *)
(***************************************************************************)
\* The section-number byte of the section at the cursor, 0 if the buffer
\* ends before it.
NumberAtCursor ==
  IF InRange(prs.buffer, prs.offset, 5)
  THEN prs.buffer[prs.offset + 5] ELSE 0

\* C23: after section 1 the cursor skips a section exactly if the
\* section-number byte at the cursor is 2; the sections 3 to 7 are read one
\* after the other, each after the ones before it, and each from bytes
\* whose section-number byte is the number of the section read.
C23_SectionOrder ==
  [][/\ (prs.pc = "sec2" /\ prs'.pc = "sec3") =>
          prs'.offset =
            IF NumberAtCursor = 2
            THEN prs.offset + readUInt32BE(prs.buffer, prs.offset)
            ELSE prs.offset
     /\ \A k \in 3..7 :
          (prs.at[k] = -1 /\ prs'.at[k] # -1) =>
            /\ prs'.at[k] = prs.offset
            /\ prs.at[1] # -1
            /\ \A j \in 3..(k - 1) : prs.at[j] # -1
            /\ \A j \in (k + 1)..7 : prs.at[j] = -1
            /\ NumberAtCursor = k]_vars

(***************************************************************************)
(* Properties of the image handler (Spec)                                  *)
(***************************************************************************)
\* C24: when the image handler goes on to generate the image, the cache has
\* an entry for its key and the image is generated from the data of that
\* entry; when the request has just refreshed the cache, that is the grid
\* it fetched itself.  No step takes the entry of a key away.
C24_ImageFromOwnRefresh ==
  [][/\ \A r \in Requests :
          (req[r].pc # "sharp" /\ req'[r].pc = "sharp") =>
            /\ req'[r].productId \in DOMAIN dataCache'
            /\ req'[r].grid = dataCache'[req'[r].productId].data
            /\ req[r].pc = "fetch" => req'[r].grid = r
            /\ req[r].pc = "new" => dataCache' = dataCache
     /\ \A k \in DOMAIN dataCache : k \in DOMAIN dataCache']_vars

\* Request 2 refreshed the cache and generates its image from its own
\* grid, while request 1, which had started its refresh before, has since
\* replaced the entry.
C24_Witness ==
  /\ req[2].pc = "sharp" /\ req[2].route = "image"
  /\ req[2].fetches = 1 /\ req[2].grid = 2
  /\ req[2].productId = StringValue("rala")
  /\ req[1].pc = "done" /\ req[1].status = 200
  /\ StringValue("rala") \in DOMAIN dataCache
  /\ dataCache[StringValue("rala")].data = 1

(***************************************************************************)
(* Properties of the RadarMap component (SpecMap)                          *)
(***************************************************************************)
\* C25: the loading flag is false only when no request is in flight, and
\* once no request is in flight and none has failed since the last one was
\* sent, radarData is the response for the selected product.
C25_NoStaleResponse ==
  /\ ~ui.loading => ui.inFlight = {}
  /\ (ui.inFlight = {} /\ ~ui.error) =>
       ui.radarData.product = ui.selectedProduct
====
